---- MODULE Spec2Model ----
(***************************************************************************)
(* One invocation of generate_image (scripts/generate_image.py) or of      *)
(* generate_video (scripts/generate_video.py), together with the things    *)
(* the invocation talks to: the process environment, the local file        *)
(* system, the standard streams and the remote generation service.         *)
(*                                                                         *)
(* Python values are encoded as follows.  A str is a TLA+ string and the   *)
(* str-or-None arguments use the string None for Python's None.  bytes is  *)
(* a sequence of 0..255.  An Optional structured value is a sequence of    *)
(* length 0 (None) or 1 (the value).  An output path is the sequence of    *)
(* its components, absolute when the first component is "/".               *)
(***************************************************************************)
EXTENDS Integers, Sequences, FiniteSets, TLC

\* ------------------------------------------------------------------ bounds

\* longest list of parts the service puts in one candidate
MaxParts == 3
\* most status queries one run of the model makes
MaxPolls == 3

\* ---------------------------------------------------------- Python basics

None == "None"

\* truth value of a str-or-None argument: None and "" are false
Truthy(x) == x # None /\ x # ""

NoneOpt == << >>
Some(x) == << x >>
IsNone(o) == o = << >>

\* ------------------------------------------------------- base64 (RFC 4648)

Pad == 64
Byte == 256
Sextet == 64

\* base64.standard_b64encode(...).decode("utf-8"): one character per
\* element, 0..63 an alphabet character by its index, Pad the "=" sign
RECURSIVE b64encode(_)
b64encode(bs) ==
    IF Len(bs) = 0 THEN << >>
    ELSE IF Len(bs) = 1 THEN
        << bs[1] \div 4, (bs[1] % 4) * 16, Pad, Pad >>
    ELSE IF Len(bs) = 2 THEN
        << bs[1] \div 4,
           (bs[1] % 4) * 16 + bs[2] \div 16,
           (bs[2] % 16) * 4,
           Pad >>
    ELSE
        << bs[1] \div 4,
           (bs[1] % 4) * 16 + bs[2] \div 16,
           (bs[2] % 16) * 4 + bs[3] \div Sextet,
           bs[3] % Sextet >>
        \o b64encode(SubSeq(bs, 4, Len(bs)))

\* base64.standard_b64decode of such a string
RECURSIVE b64decode(_)
b64decode(cs) ==
    IF Len(cs) < 4 THEN << >>
    ELSE
        LET b1 == (cs[1] * 4 + cs[2] \div 16) % Byte
            b2 == ((cs[2] % 16) * 16 + cs[3] \div 4) % Byte
            b3 == ((cs[3] % 4) * Sextet + cs[4]) % Byte
        IN  IF cs[3] = Pad THEN << b1 >>
            ELSE IF cs[4] = Pad THEN << b1, b2 >>
            ELSE << b1, b2, b3 >> \o b64decode(SubSeq(cs, 5, Len(cs)))

\* ------------------------------------------------------------- file names

\* reference images present on disk before the run, with their bytes
InputFiles ==
    ("photo.png" :> << 77, 97, 110 >>)
    @@ ("cat.jpg" :> << 255, 216 >>)
    @@ ("scan.xyz" :> << 0, 16, 131, 16 >>)

\* values of the input_image_path argument: absent, empty, three files
\* that exist and one that does not
InputImagePaths ==
    { None, "", "photo.png", "cat.jpg", "scan.xyz", "missing.png" }

\* Path(file_path).exists()
PathExists(file_path) == file_path \in DOMAIN InputFiles

\* mimetypes.guess_type(file_path)[0]: decided by the extension, None
\* when the extension is unknown
guess_type(file_path) ==
    CASE file_path \in { "photo.png", "missing.png" } -> "image/png"
      [] file_path = "cat.jpg" -> "image/jpeg"
      [] OTHER -> None

get_mime_type(file_path) ==
    IF guess_type(file_path) = None THEN "image/png" ELSE guess_type(file_path)

\* (base64_data, mime_type) of a file that exists
load_image_as_base64(file_path) ==
    [ base64_data |-> b64encode(InputFiles[file_path]),
      mime_type   |-> get_mime_type(file_path) ]

\* the working directory of the process and the directories that exist
\* before the run
Cwd == << "/", "work" >>
InitialDirs == { << "/" >>, << "/", "work" >> }

\* values of the output_path argument
OutputPaths ==
    { << "out.bin" >>,
      << "renders", "new", "out.bin" >>,
      << "/", "tmp", "out.bin" >> }

\* bytes of a file already at the output path before the run, if any
OldBytes == << 111, 108, 100 >>

\* Path.resolve(): the absolute path
Resolve(p) == IF p[1] = "/" THEN p ELSE Cwd \o p

\* Path.parent
Parent(p) == SubSeq(p, 1, Len(p) - 1)

\* Path.mkdir(parents=True, exist_ok=True): the directory and every
\* ancestor of it exist afterwards
Mkdir(dirs, d) == dirs \cup { SubSeq(d, 1, n) : n \in 1..Len(d) }

\* Path.write_bytes(data): the file holds exactly data afterwards
WriteBytes(files, p, data) == (p :> data) @@ files

\* ------------------------------------------------------------ the inputs

ApiKeys == { None, "", "arg-key" }
EnvKeys == { None, "", "env-key" }
Prompts == { "A red circle on white background", "Add storm clouds" }
\* the three values the code accepts, and two it does not
Resolutions == { "1K", "4K", "8K", "low" }
Models == { "veo-3.0-generate-001" }
NegativePrompts == { None, "", "people, boats" }

\* ----------------------------------------------- the service's responses

\* a part of a response: inline_data is None or the media bytes, text is
\* None or a string
TextPart(t) == [ inline_data |-> NoneOpt, text |-> t ]
BinaryPart(d) == [ inline_data |-> Some(d), text |-> None ]

PartKinds ==
    { TextPart("I cannot draw that"), TextPart(""),
      BinaryPart(<< 137, 80 >>), BinaryPart(<< 71 >>) }

PartSeqs == UNION { [ 1..n -> PartKinds ] : n \in 0..MaxParts }

\* response.candidates is a list; candidates[0].content.parts is None or
\* a list of parts
ImageResponses ==
    { [ candidates |-> << >> ] }
    \cup { [ candidates |-> << [ parts |-> NoneOpt ] >> ] }
    \cup { [ candidates |-> << [ parts |-> Some(ps) ] >> ] : ps \in PartSeqs }

\* the state of a long-running operation: done, error (None or the
\* service's error detail) and the videos of its result
OpPending == [ done |-> FALSE, error |-> None, generated_videos |-> << >> ]
OpError == [ done |-> TRUE, error |-> "quota exceeded", generated_videos |-> << >> ]
OpSuccess(n) ==
    [ done |-> TRUE, error |-> None,
      generated_videos |-> [ i \in 1..n |-> << 100 + i >> ] ]
Operations == { OpPending, OpError, OpSuccess(0), OpSuccess(1), OpSuccess(2) }

\* the job status an operation reports
Status(op) ==
    IF ~op.done THEN "pending"
    ELSE IF op.error # None THEN "done-error"
    ELSE "done-success"

\* ---------------------------------------------------------------- state

VARIABLES
    pipeline,          \* "image" or "video": which script runs
    args,              \* the arguments of generate_image / generate_video
    environ,           \* os.environ.get("GEMINI_API_KEY")
    pc,                \* the statement the invocation is at
    resolved_api_key,  \* the local variable of that name
    client,            \* NoneOpt, or Some of the client's api_key
    config,            \* NoneOpt, or Some of the generation config
    contents,          \* image: the content list built so far
    image,             \* video: NoneOpt, or Some of the types.Image
    response,          \* image: NoneOpt, or Some of the service's response
    operation,         \* video: NoneOpt, or Some of the job handle
    poll_count,        \* video: the local variable of that name
    generated_video,   \* video: NoneOpt, or Some of the chosen video's bytes
    dirs,              \* the directories that exist
    files,             \* the files that exist under their absolute paths
    stdout,            \* the lines printed to the output stream
    stderr,            \* the lines printed to the error stream
    calls,             \* the calls made to the service, sleeps and disk writes
    requests,          \* what each submission handed to the service
    answers,           \* video: what each status query was answered
    clock,             \* seconds the invocation has spent in time.sleep
    exit               \* how the invocation ended, once pc = "done"

vars ==
    << pipeline, args, environ, pc, resolved_api_key, client, config,
       contents, image, response, operation, poll_count, generated_video,
       dirs, files, stdout, stderr, calls, requests, answers, clock, exit >>

inputs == << pipeline, args, environ >>
locals ==
    << resolved_api_key, client, config, contents, image, response,
       operation, poll_count, generated_video >>
disk == << dirs, files >>
streams == << stdout, stderr >>
net == << calls, requests, answers >>

Running == [ how |-> "running", code |-> -1, error |-> None, value |-> << >> ]

\* sys.exit(1) after a diagnostic; error names the condition
SysExit(error) ==
    [ how |-> "sys.exit", code |-> 1, error |-> error, value |-> << >> ]

\* an exception nothing catches: the interpreter prints the traceback and
\* the process ends with status 1
Uncaught(exception) ==
    [ how |-> "raise", code |-> 1, error |-> exception, value |-> << >> ]

\* return full_path; main returns and the process ends with status 0
Return(full_path) ==
    [ how |-> "return", code |-> 0, error |-> None, value |-> full_path ]

ImageArgs ==
    [ prompt : Prompts, output_path : OutputPaths, resolution : Resolutions,
      input_image_path : InputImagePaths, api_key : ApiKeys,
      model : { None }, negative_prompt : { None } ]

VideoArgs ==
    [ prompt : Prompts, output_path : OutputPaths, resolution : { None },
      input_image_path : InputImagePaths, api_key : ApiKeys,
      model : Models, negative_prompt : NegativePrompts ]

Init ==
    /\ pipeline \in { "image", "video" }
    /\ args \in IF pipeline = "image" THEN ImageArgs ELSE VideoArgs
    /\ environ \in EnvKeys
    /\ pc = "resolve_api_key"
    /\ resolved_api_key = None
    /\ client = NoneOpt
    /\ config = NoneOpt
    /\ contents = << >>
    /\ image = NoneOpt
    /\ response = NoneOpt
    /\ operation = NoneOpt
    /\ poll_count = 0
    /\ generated_video = NoneOpt
    /\ dirs = InitialDirs
    /\ files \in
          { << >> }
          \cup { Resolve(args.output_path) :> OldBytes : x \in
                   { d \in InitialDirs : d = Parent(Resolve(args.output_path)) } }
    /\ stdout = << >>
    /\ stderr = << >>
    /\ calls = << >>
    /\ requests = << >>
    /\ answers = << >>
    /\ clock = 0
    /\ exit = Running

\* variant: the environment lookup has a placeholder default,
\* os.environ.get("GEMINI_API_KEY", "changeme")
ResolveApiKey_EnvDefault(api_key, env) ==
    IF Truthy(api_key) THEN api_key
    ELSE IF env = None THEN "changeme" ELSE env

\* variant: the environment variable wins over the argument
ResolveApiKey_EnvFirst(api_key, env) ==
    IF Truthy(env) THEN env ELSE api_key

\* api_key or os.environ.get("GEMINI_API_KEY")
ResolveApiKey(api_key, env) == IF Truthy(api_key) THEN api_key ELSE env

\* ------------------------------------------------ generate_image, by step

\* lines 74-79: resolve the API key, or report that there is none
I_ResolveApiKey ==
    /\ pipeline = "image" /\ pc = "resolve_api_key"
    /\ resolved_api_key' = ResolveApiKey(args.api_key, environ)
    /\ IF ~Truthy(resolved_api_key')
       THEN /\ stderr' = stderr \o
                    << << "Error: No API key provided." >>,
                       << "Set GEMINI_API_KEY environment variable or use --api-key argument." >> >>
            /\ exit' = SysExit("MissingCredential")
            /\ pc' = "done"
       ELSE /\ pc' = "validate_resolution"
            /\ UNCHANGED << stderr, exit >>
    /\ UNCHANGED << inputs, clock, client, config, contents, image, response,
                    operation, poll_count, generated_video, disk, stdout, net >>

\* variant: the set accepts a size the service does not offer
valid_resolutions_With8K == { "1K", "2K", "4K", "8K" }

\* line 82
valid_resolutions == { "1K", "2K", "4K" }

\* lines 81-85: validate the resolution
I_ValidateResolution ==
    /\ pipeline = "image" /\ pc = "validate_resolution"
    /\ IF args.resolution \notin valid_resolutions
       THEN /\ stderr' = Append(stderr, << "Error: Invalid resolution", args.resolution >>)
            /\ exit' = SysExit("InvalidOption")
            /\ pc' = "done"
       ELSE /\ pc' = "client"
            /\ UNCHANGED << stderr, exit >>
    /\ UNCHANGED << inputs, clock, locals, disk, stdout, net >>

\* lines 87-88: the client is built from the resolved key
I_InitClient ==
    /\ pipeline = "image" /\ pc = "client"
    /\ client' = Some(resolved_api_key)
    /\ pc' = "build_contents"
    /\ UNCHANGED << inputs, clock, resolved_api_key, config, contents, image, response,
                    operation, poll_count, generated_video, disk, streams, net, exit >>

\* the element of contents made from the reference image: the bytes are
\* the base64 text decoded again
ImagePart(loaded) ==
    [ data |-> b64decode(loaded.base64_data), mime_type |-> loaded.mime_type ]

\* the element of contents made from the prompt
TextContent(prompt) == [ text |-> prompt ]

\* variant: the prompt is appended before the reference image
BuildContents_PromptFirst(prompt, input_image_path) ==
    << TextContent(prompt) >>
    \o (IF Truthy(input_image_path)
        THEN << ImagePart(load_image_as_base64(input_image_path)) >>
        ELSE << >>)

\* lines 90-104: the content list, the reference image first when a path
\* is given, then the prompt
BuildContents(prompt, input_image_path) ==
    (IF Truthy(input_image_path)
     THEN << ImagePart(load_image_as_base64(input_image_path)) >>
     ELSE << >>)
    \o << TextContent(prompt) >>

\* lines 90-112: build the content list, the reference image first, and
\* the generation config.  load_image_as_base64 raises FileNotFoundError
\* for a path that does not exist, and nothing catches it.
I_BuildContents ==
    /\ pipeline = "image" /\ pc = "build_contents"
    /\ IF Truthy(args.input_image_path) /\ ~PathExists(args.input_image_path)
       THEN /\ stderr' = stderr \o
                    << << "Traceback (most recent call last):" >>,
                       << "FileNotFoundError: Input image not found:", args.input_image_path >> >>
            /\ exit' = Uncaught("FileNotFoundError")
            /\ pc' = "done"
            /\ UNCHANGED << contents, config, calls >>
       ELSE /\ contents' = BuildContents(args.prompt, args.input_image_path)
            /\ calls' = IF Truthy(args.input_image_path)
                        THEN Append(calls, "read") ELSE calls
            /\ config' = Some([ response_modalities |-> << "IMAGE" >>,
                                image_size |-> args.resolution ])
            /\ pc' = "generate_content"
            /\ UNCHANGED << stderr, exit >>
    /\ UNCHANGED << inputs, clock, resolved_api_key, client, image, response,
                    operation, poll_count, generated_video, disk, stdout, requests, answers >>

\* what a call of the service is given
Request(model, credential, content, cfg) ==
    [ model |-> model, api_key |-> credential, contents |-> content, config |-> cfg ]

\* lines 114-125: the one call of the service; any exception is reported
\* and ends the invocation
I_GenerateContent ==
    /\ pipeline = "image" /\ pc = "generate_content"
    /\ calls' = Append(calls, "generate_content")
    /\ requests' = Append(requests,
            Request("gemini-3-pro-image-preview", client[1], contents, config))
    /\ \/ \E r \in ImageResponses :
            /\ response' = Some(r)
            /\ pc' = "extract"
            /\ UNCHANGED << stderr, exit >>
       \/ /\ stderr' = Append(stderr, << "Error calling Gemini API:", "service said no" >>)
          /\ exit' = SysExit("ServiceError")
          /\ pc' = "done"
          /\ UNCHANGED response
    /\ UNCHANGED << inputs, clock, resolved_api_key, client, config, contents, image,
                    operation, poll_count, generated_video, disk, stdout, answers >>

\* variant: the loop does not stop at the first part with inline data,
\* so the last one wins
FirstInline_Last(parts, i) ==
    LET found == { j \in i..Len(parts) : ~IsNone(parts[j].inline_data) }
    IN  IF found = { } THEN 0
        ELSE CHOOSE j \in found : \A k \in found : k <= j

\* index of the first part whose inline_data is not None, from index i
\* on; 0 when there is none (the loop of lines 130-131)
RECURSIVE FirstInline(_, _)
FirstInline(parts, i) ==
    IF i > Len(parts) THEN 0
    ELSE IF ~IsNone(parts[i].inline_data) THEN i
    ELSE FirstInline(parts, i + 1)

\* the lines "Model response: <text>" of lines 142-144, one for each
\* part whose text is neither None nor empty, in order
RECURSIVE ModelResponses(_)
ModelResponses(parts) ==
    IF parts = << >> THEN << >>
    ELSE (IF Truthy(Head(parts).text)
          THEN << << "Model response:", Head(parts).text >> >>
          ELSE << >>)
         \o ModelResponses(Tail(parts))

\* line 130: response.candidates[0].content.parts is iterated.  With no
\* candidate the subscript raises IndexError, with parts None the loop
\* raises TypeError, and nothing catches either.
I_Scan ==
    /\ pipeline = "image" /\ pc = "extract"
    /\ IF response[1].candidates = << >>
       THEN /\ stderr' = stderr \o
                    << << "Traceback (most recent call last):" >>,
                       << "IndexError: list index out of range" >> >>
            /\ exit' = Uncaught("IndexError")
            /\ pc' = "done"
       ELSE IF IsNone(response[1].candidates[1].parts)
       THEN /\ stderr' = stderr \o
                    << << "Traceback (most recent call last):" >>,
                       << "TypeError: 'NoneType' object is not iterable" >> >>
            /\ exit' = Uncaught("TypeError")
            /\ pc' = "done"
       ELSE /\ pc' = IF FirstInline(response[1].candidates[1].parts[1], 1) > 0
                     THEN "save" ELSE "no_image"
            /\ UNCHANGED << stderr, exit >>
    /\ UNCHANGED << inputs, clock, locals, disk, stdout, net >>

\* lines 132-137: the first part with inline data is written to the
\* output path, whose parent directories are created first
I_Save ==
    /\ pipeline = "image" /\ pc = "save"
    /\ LET parts == response[1].candidates[1].parts[1]
           image_data == parts[FirstInline(parts, 1)].inline_data[1]
           full_path == Resolve(args.output_path)
       IN  /\ dirs' = Mkdir(dirs, Parent(full_path))
           /\ files' = WriteBytes(files, full_path, image_data)
           /\ calls' = calls \o << "mkdir", "write_bytes" >>
           /\ stdout' = Append(stdout, << "Image saved:", full_path >>)
           /\ exit' = Return(full_path)
    /\ pc' = "done"
    /\ UNCHANGED << inputs, clock, locals, stderr, requests, answers >>

\* variant: the parent directories are created before the parts are
\* looked at, so also when no part has inline data
I_NoImage_AfterMkdir ==
    /\ pipeline = "image" /\ pc = "no_image"
    /\ dirs' = Mkdir(dirs, Parent(Resolve(args.output_path)))
    /\ calls' = Append(calls, "mkdir")
    /\ stderr' = Append(stderr, << "Error: No image was generated in the response." >>)
                 \o ModelResponses(response[1].candidates[1].parts[1])
    /\ exit' = SysExit("NoMediaProduced")
    /\ pc' = "done"
    /\ UNCHANGED << inputs, clock, locals, files, stdout, requests, answers >>

\* lines 139-145: no part had inline data; the guard of line 141 holds
\* here unless the list of parts is empty, and then there is no text
I_NoImage ==
    /\ pipeline = "image" /\ pc = "no_image"
    /\ stderr' = Append(stderr, << "Error: No image was generated in the response." >>)
                 \o ModelResponses(response[1].candidates[1].parts[1])
    /\ exit' = SysExit("NoMediaProduced")
    /\ pc' = "done"
    /\ UNCHANGED << inputs, clock, locals, disk, stdout, net >>

ImageNext ==
    \/ I_ResolveApiKey
    \/ I_ValidateResolution
    \/ I_InitClient
    \/ I_BuildContents
    \/ I_GenerateContent
    \/ I_Scan
    \/ I_Save
    \/ I_NoImage

\* ------------------------------------------------ generate_video, by step

\* seconds between two status queries
PollInterval == 20

\* lines 49-54: resolve the API key, or report that there is none
V_ResolveApiKey ==
    /\ pipeline = "video" /\ pc = "resolve_api_key"
    /\ resolved_api_key' = ResolveApiKey(args.api_key, environ)
    /\ IF ~Truthy(resolved_api_key')
       THEN /\ stderr' = stderr \o
                    << << "Error: No API key provided." >>,
                       << "Set GEMINI_API_KEY environment variable or use --api-key argument." >> >>
            /\ exit' = SysExit("MissingCredential")
            /\ pc' = "done"
       ELSE /\ pc' = "client"
            /\ UNCHANGED << stderr, exit >>
    /\ UNCHANGED << inputs, clock, client, config, contents, image, response,
                    operation, poll_count, generated_video, disk, stdout, net >>

\* lines 56-64: the client, and the config, which is None unless a
\* negative prompt is given
V_InitClient ==
    /\ pipeline = "video" /\ pc = "client"
    /\ client' = Some(resolved_api_key)
    /\ config' = IF Truthy(args.negative_prompt)
                 THEN Some([ negative_prompt |-> args.negative_prompt ])
                 ELSE NoneOpt
    /\ pc' = "load_image"
    /\ UNCHANGED << inputs, clock, resolved_api_key, contents, image, response,
                    operation, poll_count, generated_video, disk, streams, net, exit >>

\* lines 66-88: the reference image, if a path is given; a path that does
\* not exist is reported and ends the invocation
V_LoadImage ==
    /\ pipeline = "video" /\ pc = "load_image"
    /\ IF Truthy(args.input_image_path) /\ ~PathExists(args.input_image_path)
       THEN /\ stderr' = Append(stderr,
                    << "Error: Input image not found:", args.input_image_path >>)
            /\ exit' = SysExit("InputNotFound")
            /\ pc' = "done"
            /\ UNCHANGED << image, stdout, calls >>
       ELSE /\ image' =
                    IF Truthy(args.input_image_path)
                    THEN Some([ image_bytes |-> InputFiles[args.input_image_path],
                                mime_type |->
                                    IF guess_type(args.input_image_path) = None
                                    THEN "image/jpeg"
                                    ELSE guess_type(args.input_image_path) ])
                    ELSE NoneOpt
            /\ calls' = IF Truthy(args.input_image_path)
                        THEN Append(calls, "read") ELSE calls
            /\ stdout' = stdout
                    \o (IF Truthy(args.input_image_path)
                        THEN << << "Loading input image:", args.input_image_path >> >>
                        ELSE << >>)
                    \o << << "Starting video generation with model:", args.model >>,
                          << "Prompt:", args.prompt >> >>
                    \o (IF Truthy(args.negative_prompt)
                        THEN << << "Negative prompt:", args.negative_prompt >> >>
                        ELSE << >>)
            /\ pc' = "generate_videos"
            /\ UNCHANGED << stderr, exit >>
    /\ UNCHANGED << inputs, clock, resolved_api_key, client, config, contents, response,
                    operation, poll_count, generated_video, disk, requests, answers >>

\* variant: a submission that raises is reported and made again
V_GenerateVideos_Retrying ==
    /\ pipeline = "video" /\ pc = "generate_videos"
    /\ calls' = Append(calls, "generate_videos")
    /\ requests' = Append(requests,
            [ model |-> args.model, api_key |-> client[1],
              prompt |-> args.prompt, image |-> image, config |-> config ])
    /\ \/ \E op \in Operations :
            /\ operation' = Some(op)
            /\ stdout' = Append(stdout,
                    << "Generating video (this may take a few minutes)..." >>)
            /\ pc' = "loop_test"
            /\ UNCHANGED << stderr, exit >>
       \/ /\ stderr' = Append(stderr,
                    << "Error starting video generation:", "service said no" >>)
          /\ pc' = "generate_videos"
          /\ UNCHANGED << operation, stdout, exit >>
    /\ UNCHANGED << inputs, clock, resolved_api_key, client, config, contents, image,
                    response, poll_count, generated_video, disk, answers >>

\* lines 90-109: the one submission; the service answers with a job
\* handle in any state, or the call raises, which is reported and ends
\* the invocation
V_GenerateVideos ==
    /\ pipeline = "video" /\ pc = "generate_videos"
    /\ calls' = Append(calls, "generate_videos")
    /\ requests' = Append(requests,
            [ model |-> args.model, api_key |-> client[1],
              prompt |-> args.prompt, image |-> image, config |-> config ])
    /\ \/ \E op \in Operations :
            /\ operation' = Some(op)
            /\ stdout' = Append(stdout,
                    << "Generating video (this may take a few minutes)..." >>)
            /\ pc' = "loop_test"
            /\ UNCHANGED << stderr, exit >>
       \/ /\ stderr' = Append(stderr,
                    << "Error starting video generation:", "service said no" >>)
          /\ exit' = SysExit("ServiceError")
          /\ pc' = "done"
          /\ UNCHANGED << operation, stdout >>
    /\ UNCHANGED << inputs, clock, resolved_api_key, client, config, contents, image,
                    response, poll_count, generated_video, disk, answers >>

\* variant: the body runs once before the condition is first tested
V_LoopTest_DoWhile ==
    /\ pipeline = "video" /\ pc = "loop_test"
    /\ pc' = IF operation[1].done /\ poll_count > 0 THEN "check_error" ELSE "report"
    /\ UNCHANGED << inputs, clock, locals, disk, streams, net, exit >>

\* variant: the loop gives up after two rounds,
\* while not operation.done and poll_count < 2
V_LoopTest_MaxRetries ==
    /\ pipeline = "video" /\ pc = "loop_test"
    /\ pc' = IF operation[1].done \/ poll_count >= 2 THEN "check_error" ELSE "report"
    /\ UNCHANGED << inputs, clock, locals, disk, streams, net, exit >>

\* line 111: while not operation.done
V_LoopTest ==
    /\ pipeline = "video" /\ pc = "loop_test"
    /\ operation[1].done \/ poll_count < MaxPolls
    /\ pc' = IF operation[1].done THEN "check_error" ELSE "report"
    /\ UNCHANGED << inputs, clock, locals, disk, streams, net, exit >>

\* lines 112-113: count the round and print the elapsed time
V_Report ==
    /\ pipeline = "video" /\ pc = "report"
    /\ poll_count' = poll_count + 1
    /\ stdout' = Append(stdout, << "Waiting... elapsed", poll_count' * PollInterval >>)
    /\ pc' = "sleep"
    /\ UNCHANGED << inputs, clock, resolved_api_key, client, config, contents, image,
                    response, operation, generated_video, disk, stderr, net, exit >>

\* variant: the delay is made only between two queries, not before the
\* first one
V_Sleep_SkipFirst ==
    /\ pipeline = "video" /\ pc = "sleep"
    /\ calls' = IF poll_count = 1 THEN calls ELSE Append(calls, "sleep")
    /\ clock' = IF poll_count = 1 THEN clock ELSE clock + PollInterval
    /\ pc' = "get"
    /\ UNCHANGED << inputs, locals, disk, streams, requests, answers, exit >>

\* line 114: time.sleep(20)
V_Sleep ==
    /\ pipeline = "video" /\ pc = "sleep"
    /\ calls' = Append(calls, "sleep")
    /\ clock' = clock + PollInterval
    /\ pc' = "get"
    /\ UNCHANGED << inputs, locals, disk, streams, requests, answers, exit >>

\* variant: a status query that raises is reported and the loop goes on
V_Get_Retrying ==
    /\ pipeline = "video" /\ pc = "get"
    /\ calls' = Append(calls, "operations.get")
    /\ \/ \E op \in Operations :
            /\ operation' = Some(op)
            /\ answers' = Append(answers, Status(op))
            /\ stderr' = stderr
       \/ /\ stderr' = Append(stderr,
                    << "Error checking operation status:", "connection reset" >>)
          /\ answers' = Append(answers, "failed")
          /\ UNCHANGED operation
    /\ pc' = "loop_test"
    /\ UNCHANGED << inputs, clock, resolved_api_key, client, config, contents, image,
                    response, poll_count, generated_video, disk, stdout, requests,
                    exit >>

\* lines 115-119: the status query; the service answers with the job in
\* any state, or the call raises, which is reported and ends the
\* invocation
V_Get ==
    /\ pipeline = "video" /\ pc = "get"
    /\ calls' = Append(calls, "operations.get")
    /\ \/ \E op \in Operations :
            /\ operation' = Some(op)
            /\ answers' = Append(answers, Status(op))
            /\ pc' = "loop_test"
            /\ UNCHANGED << stderr, exit >>
       \/ /\ stderr' = Append(stderr,
                    << "Error checking operation status:", "connection reset" >>)
          /\ answers' = Append(answers, "failed")
          /\ exit' = SysExit("ServiceError")
          /\ pc' = "done"
          /\ UNCHANGED operation
    /\ UNCHANGED << inputs, clock, resolved_api_key, client, config, contents, image,
                    response, poll_count, generated_video, disk, stdout, requests >>

\* variant: operation.error is not looked at
V_CheckError_Ignored ==
    /\ pipeline = "video" /\ pc = "check_error"
    /\ pc' = "mkdir"
    /\ UNCHANGED << inputs, clock, locals, disk, streams, net, exit >>

\* lines 121-124: a finished job that carries an error is reported and
\* ends the invocation
V_CheckError ==
    /\ pipeline = "video" /\ pc = "check_error"
    /\ IF operation[1].error # None
       THEN /\ stderr' = Append(stderr,
                    << "Error generating video:", operation[1].error >>)
            /\ exit' = SysExit("GenerationFailed")
            /\ pc' = "done"
       ELSE /\ pc' = "mkdir"
            /\ UNCHANGED << stderr, exit >>
    /\ UNCHANGED << inputs, clock, locals, disk, stdout, net >>

\* lines 126-128: the parent directories of the output path
V_Mkdir ==
    /\ pipeline = "video" /\ pc = "mkdir"
    /\ dirs' = Mkdir(dirs, Parent(Resolve(args.output_path)))
    /\ calls' = Append(calls, "mkdir")
    /\ pc' = "pick_video"
    /\ UNCHANGED << inputs, clock, locals, files, streams, requests, answers, exit >>

\* variant: the handler reports the exception and the function goes on
\* to return the path
SavingFailed_ReturnsPath(why) ==
    /\ stderr' = Append(stderr, << "Error saving video:", why >>)
    /\ exit' = Return(Resolve(args.output_path))
    /\ pc' = "done"

\* lines 137-139: any exception of lines 131-136 is reported and ends
\* the invocation
SavingFailed(why) ==
    /\ stderr' = Append(stderr, << "Error saving video:", why >>)
    /\ exit' = SysExit("PersistenceError")
    /\ pc' = "done"

\* line 131: operation.result.generated_videos[0]
V_PickVideo ==
    /\ pipeline = "video" /\ pc = "pick_video"
    /\ IF operation[1].generated_videos = << >>
       THEN /\ SavingFailed("list index out of range")
            /\ UNCHANGED generated_video
       ELSE /\ generated_video' = Some(operation[1].generated_videos[1])
            /\ pc' = "download"
            /\ UNCHANGED << stderr, exit >>
    /\ UNCHANGED << inputs, clock, resolved_api_key, client, config, contents, image,
                    response, operation, poll_count, disk, stdout, net >>

\* line 132: client.files.download
V_Download ==
    /\ pipeline = "video" /\ pc = "download"
    /\ calls' = Append(calls, "files.download")
    /\ \/ /\ pc' = "save"
          /\ UNCHANGED << stderr, exit >>
       \/ SavingFailed("download failed")
    /\ UNCHANGED << inputs, clock, locals, disk, stdout, requests, answers >>

\* lines 133-136: the video is saved at the output path and the resolved
\* path is printed and returned
V_Save ==
    /\ pipeline = "video" /\ pc = "save"
    /\ calls' = Append(calls, "video.save")
    /\ \/ /\ files' = WriteBytes(files, Resolve(args.output_path), generated_video[1])
          /\ stdout' = Append(stdout, << "Video saved:", Resolve(args.output_path) >>)
          /\ exit' = Return(Resolve(args.output_path))
          /\ pc' = "done"
          /\ UNCHANGED stderr
       \/ /\ SavingFailed("cannot write file")
          /\ UNCHANGED << files, stdout >>
    /\ UNCHANGED << inputs, clock, locals, dirs, requests, answers >>

VideoNext ==
    \/ V_ResolveApiKey
    \/ V_InitClient
    \/ V_LoadImage
    \/ V_GenerateVideos
    \/ V_LoopTest
    \/ V_Report
    \/ V_Sleep
    \/ V_Get
    \/ V_CheckError
    \/ V_Mkdir
    \/ V_PickVideo
    \/ V_Download
    \/ V_Save

Next == ImageNext \/ VideoNext

Spec == Init /\ [][Next]_vars

\* generate_video alone.  The invocation is one sequential thread whose
\* every statement completes: a sleep returns, and a call of the service
\* returns or raises.  So a step that can be taken is taken.
VideoInit == Init /\ pipeline = "video"

VideoSpec == VideoInit /\ [][VideoNext]_vars /\ WF_vars(VideoNext)

\* ------------------------------------------------------------ the claims

\* how many calls of one kind the run has made
Count(kind) == Cardinality({ i \in DOMAIN calls : calls[i] = kind })

Submits == Count("generate_content") + Count("generate_videos")
Polls == Count("operations.get")
Delays == Count("sleep")
Downloads == Count("files.download")

\* nothing on disk has changed since the run began
DiskUntouched ==
    /\ dirs = InitialDirs
    /\ files \in { << >>, Resolve(args.output_path) :> OldBytes }
    /\ \A i \in DOMAIN calls : calls[i] \notin { "mkdir", "write_bytes", "video.save" }

\* neither the api_key argument nor the environment variable is given
NoCredential == args.api_key = None /\ environ = None

\* C1: in both pipelines a run with no api-key argument and no
\* GEMINI_API_KEY variable can only end at once with the MissingCredential
\* diagnostic and exit code 1; it never calls the service (submit, status
\* query, download) and creates no file or directory.
C1_MissingCredential ==
    NoCredential =>
        /\ pc \in { "resolve_api_key", "done" }
        /\ pc = "done" =>
              /\ exit = SysExit("MissingCredential")
              /\ exit.code = 1
              /\ Len(stderr) > 0
        /\ Submits = 0 /\ Polls = 0 /\ Downloads = 0
        /\ requests = << >>
        /\ DiskUntouched

C1_Witness ==
    /\ NoCredential /\ pc = "done"
    /\ pipeline = "video"
    /\ exit = SysExit("MissingCredential")

\* the resolutions the image pipeline is documented to accept
EnumeratedResolutions == { "1K", "2K", "4K" }

\* C2 as stated: in the image pipeline every run with a resolution outside
\* the valid set ends with InvalidOption.
C2_Original ==
    (pipeline = "image" /\ args.resolution \notin EnumeratedResolutions /\ pc = "done")
        => exit = SysExit("InvalidOption")

\* C2 as amended: in the image pipeline a run with a resolution outside
\* the valid set never reaches the submit call; it ends with exit code 1,
\* with InvalidOption when a credential is available and with
\* MissingCredential, which is checked first, when none is.
C2_InvalidOption ==
    (pipeline = "image" /\ args.resolution \notin EnumeratedResolutions) =>
        /\ pc \in { "resolve_api_key", "validate_resolution", "done" }
        /\ Submits = 0 /\ requests = << >> /\ response = NoneOpt
        /\ pc = "done" =>
              /\ exit.code = 1
              /\ exit = IF Truthy(args.api_key) \/ Truthy(environ)
                        THEN SysExit("InvalidOption")
                        ELSE SysExit("MissingCredential")

C2_Witness ==
    /\ pipeline = "image" /\ pc = "done"
    /\ args.resolution = "8K"
    /\ args.input_image_path = "missing.png"
    /\ exit = SysExit("InvalidOption")

\* C3: every request the image pipeline submits carries exactly the
\* prompt when no reference image path is given, and exactly the
\* reference image (the bytes of the file) followed by the prompt when one
\* is given.
C3_ContentOrder ==
    pipeline = "image" =>
        \A i \in DOMAIN requests :
            LET c == requests[i].contents
            IN  IF Truthy(args.input_image_path)
                THEN /\ Len(c) = 2
                     /\ DOMAIN c[1] = { "data", "mime_type" }
                     /\ c[1].data = InputFiles[args.input_image_path]
                     /\ c[2] = [ text |-> args.prompt ]
                ELSE /\ Len(c) = 1
                     /\ c[1] = [ text |-> args.prompt ]

C3_Witness ==
    /\ pipeline = "image" /\ Len(requests) = 1
    /\ args.input_image_path = "scan.xyz"
    /\ Len(requests[1].contents) = 2
    /\ requests[1].contents[1].data = << 0, 16, 131, 16 >>
    /\ requests[1].contents[1].mime_type = "image/png"

\* the run has left the polling loop for the extraction of lines 126-139
InExtraction == pc \in { "mkdir", "pick_video", "download", "save" }

\* the run has performed a step of the extraction
Extracted ==
    \E i \in DOMAIN calls : calls[i] \in { "mkdir", "files.download", "video.save" }

\* C4 as stated: when the status queries were answered pending, pending,
\* done-success, the run has made 3 status queries and 2 delays.
C4_Original ==
    answers = << "pending", "pending", "done-success" >>
        => Polls = 3 /\ Delays = 2

\* C4 as amended: when the status queries were answered pending, pending,
\* done-success, the run has made exactly 3 status queries and exactly 3
\* delays of 20 seconds, one before each query; it makes no further query
\* and goes on to the extraction.
C4_ThreePollsThreeDelays ==
    (Len(answers) >= 3
     /\ SubSeq(answers, 1, 3) = << "pending", "pending", "done-success" >>) =>
        /\ Len(answers) = 3
        /\ Polls = 3 /\ Delays = 3
        /\ poll_count = 3
        /\ pc \in { "loop_test", "check_error", "done" } \/ InExtraction
        /\ pc = "done" =>
              /\ Extracted
              /\ exit.error \notin { "GenerationFailed", "ServiceError" }

C4_Witness ==
    /\ answers = << "pending", "pending", "done-success" >>
    /\ pc = "pick_video"
    /\ Polls = 3 /\ Delays = 3

\* C5: when the first status query is answered pending and the second
\* done-error, there is no third query: the run has made exactly 2 status
\* queries, it can only end with GenerationFailed and exit code 1, and it
\* never creates the output directory, downloads or saves.
C5_PendingThenError ==
    (Len(answers) >= 2 /\ answers[1] = "pending" /\ answers[2] = "done-error") =>
        /\ Len(answers) = 2 /\ Polls = 2
        /\ pc \in { "loop_test", "check_error", "done" }
        /\ ~Extracted
        /\ DiskUntouched
        /\ pc = "done" => exit = SysExit("GenerationFailed") /\ exit.code = 1

C5_Witness ==
    /\ answers = << "pending", "done-error" >>
    /\ pc = "done"
    /\ exit = SysExit("GenerationFailed")

\* the parts of the first candidate of an image response, none when
\* the candidate has no list of parts
PartsOf(r) ==
    IF IsNone(r.candidates[1].parts) THEN << >> ELSE r.candidates[1].parts[1]

HasBinaryPart(ps) == \E i \in DOMAIN ps : ~IsNone(ps[i].inline_data)

\* a line is on the error stream
OnStderr(line) == \E i \in DOMAIN stderr : stderr[i] = line

\* C6: in the image pipeline, when the response has no part with binary
\* media, the run ends with NoMediaProduced and exit code 1 through the
\* diagnostic "No image was generated", nothing is written, and the text
\* of every non-empty text part is on the error stream.
C6_NoMediaProduced ==
    (/\ pipeline = "image" /\ pc = "done"
     /\ ~IsNone(response)
     /\ response[1].candidates # << >>
     /\ ~HasBinaryPart(PartsOf(response[1]))) =>
        /\ exit = SysExit("NoMediaProduced")
        /\ OnStderr(<< "Error: No image was generated in the response." >>)
        /\ DiskUntouched
        /\ \A i \in DOMAIN PartsOf(response[1]) :
               Truthy(PartsOf(response[1])[i].text)
                   => OnStderr(<< "Model response:", PartsOf(response[1])[i].text >>)

\* the response is a candidate with a list of parts, one of them binary
HasImage ==
    /\ pipeline = "image" /\ ~IsNone(response)
    /\ response[1].candidates # << >>
    /\ ~IsNone(response[1].candidates[1].parts)
    /\ HasBinaryPart(PartsOf(response[1]))

InputMissing ==
    Truthy(args.input_image_path) /\ ~PathExists(args.input_image_path)

\* C8: in both pipelines, a run that has a credential and valid options
\* and whose reference image path names no file ends through sys.exit(1)
\* with the InputNotFound diagnostic on the error stream, and submits
\* nothing.
C8_InputNotFound ==
    (/\ InputMissing /\ pc = "done"
     /\ exit.error \notin { "MissingCredential", "InvalidOption" }) =>
        /\ exit = SysExit("InputNotFound")
        /\ exit.code = 1
        /\ Submits = 0

\* C9: in the video pipeline a status query that raises is the last thing
\* the run does: the run has ended with ServiceError and exit code 1, and
\* no delay, status query, download or save follows the failed query.
C9_PollFailureFatal ==
    \A i \in DOMAIN answers :
        answers[i] = "failed" =>
            /\ i = Len(answers)
            /\ calls[Len(calls)] = "operations.get"
            /\ pc = "done"
            /\ exit = SysExit("ServiceError") /\ exit.code = 1
            /\ ~Extracted
            /\ DiskUntouched

C9_Witness ==
    /\ answers = << "pending", "failed" >>
    /\ pc = "done"
    /\ Polls = 2 /\ Delays = 2

\* the submit call was made and raised
SubmitRejected == Submits >= 1 /\ IsNone(response) /\ IsNone(operation)

\* C10: in both pipelines the submit call is made at most once; when it
\* raises, the run has ended with ServiceError and exit code 1, and the
\* submit call is the last call of the run: no status query, delay,
\* download or disk write follows.
C10_SubmitOnceNoRetry ==
    /\ Submits <= 1
    /\ Len(requests) = Submits
    /\ SubmitRejected =>
          /\ pc = "done"
          /\ exit = SysExit("ServiceError") /\ exit.code = 1
          /\ calls[Len(calls)] \in { "generate_content", "generate_videos" }
          /\ Polls = 0 /\ Delays = 0 /\ Downloads = 0
          /\ answers = << >>
          /\ DiskUntouched

C10_Witness ==
    /\ pipeline = "video" /\ SubmitRejected
    /\ pc = "done" /\ Submits = 1

\* no file has been written at the output path: what is there, if
\* anything, is what was there before the run
NoArtifactWritten ==
    /\ files \in { << >>, Resolve(args.output_path) :> OldBytes }
    /\ \A i \in DOMAIN calls : calls[i] # "write_bytes"

\* the bytes the service delivered for the artifact
DeliveredBytes ==
    IF pipeline = "image"
    THEN LET ps == PartsOf(response[1])
         IN  ps[CHOOSE i \in DOMAIN ps :
                    /\ ~IsNone(ps[i].inline_data)
                    /\ \A j \in 1..(i - 1) : IsNone(ps[j].inline_data)].inline_data[1]
    ELSE operation[1].generated_videos[1]

\* the service has delivered bytes for the artifact
HasDelivery ==
    IF pipeline = "image" THEN HasImage
    ELSE ~IsNone(operation) /\ operation[1].generated_videos # << >>

ContractedCredential ==
    IF args.api_key # None /\ args.api_key # "" THEN args.api_key ELSE environ

\* C12: in both pipelines, once the key is resolved it is the api_key
\* argument when that has a value, whatever the environment variable
\* holds, and otherwise the value of the environment variable; the client
\* and every request submitted present exactly that credential.
C12_CredentialPrecedence ==
    /\ pc # "resolve_api_key" => resolved_api_key = ContractedCredential
    /\ ~IsNone(client) => client[1] = ContractedCredential
    /\ \A i \in DOMAIN requests :
           /\ requests[i].api_key = ContractedCredential
           /\ requests[i].api_key \notin { None, "" }

C12_Witness ==
    /\ args.api_key = "arg-key" /\ environ = "env-key"
    /\ Len(requests) = 1
    /\ requests[1].api_key = "arg-key"

\* C13: in the video pipeline every status query comes directly after one
\* delay of 20 seconds and every delay is directly followed by its query:
\* the number of delays equals the number of queries, or exceeds it by one
\* exactly while a delay has finished and its query is still to be made,
\* and the time slept is 20 seconds for each delay.
C13_DelayBeforeEachQuery ==
    /\ Delays \in { Polls, Polls + 1 }
    /\ Delays = Polls + 1 <=> pc = "get"
    /\ clock = 20 * Delays
    /\ \A i \in DOMAIN calls :
           /\ calls[i] = "operations.get" => i > 1 /\ calls[i - 1] = "sleep"
           /\ (calls[i] = "sleep" /\ i < Len(calls)) => calls[i + 1] = "operations.get"

C13_Witness ==
    /\ pc = "get"
    /\ Delays = 2 /\ Polls = 1
    /\ answers = << "pending" >>
    /\ clock = 40

\* the job handle exists, the job is not done and n status queries have
\* been answered
StillPending(n) ==
    /\ ~IsNone(operation) /\ ~operation[1].done
    /\ Len(answers) = n
    /\ pc # "done"

\* a status that ends the waiting has been seen: the job is done, or a
\* status query has raised
WaitingOver ==
    \/ ~IsNone(operation) /\ operation[1].done
    \/ answers # << >> /\ answers[Len(answers)] = "failed"

\* C14: in the video pipeline, as long as the job is pending after n
\* answered status queries, an (n+1)-th query is made, for every n below
\* the number of queries a run of the model makes; a run that has got a
\* job handle ends only after the job is reported done or a query has
\* raised, and once that has happened the run does end.
C14_UnboundedPolling ==
    /\ \A n \in 0..(MaxPolls - 1) : StillPending(n) ~> (Len(answers) = n + 1)
    /\ []((pc = "done" /\ ~IsNone(operation)) => WaitingOver)
    /\ [](pc \in { "check_error", "mkdir", "pick_video", "download", "save" }
              => operation[1].done)
    /\ WaitingOver ~> (pc = "done")

C14_Witness ==
    /\ answers = << "pending", "pending", "done-success" >>
    /\ poll_count = 3
    /\ pc = "done" /\ exit.how = "return"

\* C15: in the video pipeline the extraction (creating the output
\* directory, choosing, downloading and saving the video) is entered or
\* has been performed only when the job status observed last, on the
\* handle or by the last status query, is done with no error: never with
\* the job pending, never after done-error, never after a query that
\* raised.
C15_ExtractionOnlyAfterSuccess ==
    (pipeline = "video" /\ (InExtraction \/ Extracted)) =>
        /\ ~IsNone(operation)
        /\ Status(operation[1]) = "done-success"
        /\ answers # << >> => answers[Len(answers)] = "done-success"
        /\ \A i \in DOMAIN answers : answers[i] \notin { "failed", "done-error" }

C15_Witness ==
    /\ pc = "download"
    /\ answers = << "pending", "done-success" >>
    /\ calls[Len(calls)] = "mkdir"

\* C16 as stated: each progress line reports the time slept so far: right
\* after a progress line is printed, the seconds it states are the
\* seconds of delay completed.
C16_ReportedElapsed ==
    (pipeline = "video" /\ pc = "sleep") =>
        stdout[Len(stdout)] = << "Waiting... elapsed", clock >>

\* the handle that generate_videos returned is already done: the job is
\* done and no status query has been answered
HandleAlreadyDone ==
    /\ pipeline = "video"
    /\ ~IsNone(operation) /\ operation[1].done
    /\ answers = << >>

\* C17: in the video pipeline, when the handle returned by the submit call
\* is already done, the run makes no delay and no status query and prints
\* no progress line; it goes from the loop test to the error check and
\* from there ends with GenerationFailed when the handle carries an error
\* and goes on to the extraction when it does not.
C17_DoneHandleSkipsWaiting ==
    HandleAlreadyDone =>
        /\ Polls = 0 /\ Delays = 0 /\ clock = 0 /\ poll_count = 0
        /\ \A i \in DOMAIN stdout : stdout[i][1] # "Waiting... elapsed"
        /\ pc \in { "loop_test", "check_error", "done" } \/ InExtraction
        /\ operation[1].error # None =>
              /\ ~InExtraction /\ ~Extracted
              /\ pc = "done" => exit = SysExit("GenerationFailed")
        /\ (operation[1].error = None /\ pc = "done") =>
              /\ Extracted
              /\ exit.error \notin { "GenerationFailed", "ServiceError" }

C17_Witness ==
    /\ HandleAlreadyDone
    /\ operation[1] = OpError
    /\ pc = "done" /\ exit = SysExit("GenerationFailed")
    /\ calls[Len(calls)] = "generate_videos"

\* the remote generation has succeeded: the image response has a binary
\* part, or the video job has been observed done with no error
GenerationSucceeded ==
    IF pipeline = "image" THEN HasImage
    ELSE ~IsNone(operation) /\ Status(operation[1]) = "done-success"

\* C18: in both pipelines the disk is as it was before the run (no
\* directory created, no file written, no call of mkdir or of a write)
\* until the remote generation has succeeded; a run that has ended at
\* credential resolution, option validation, input lookup, submission or
\* polling, or with GenerationFailed or NoMediaProduced, has left the
\* disk unchanged.
C18_NoDiskChangeBeforeSuccess ==
    /\ ~DiskUntouched => GenerationSucceeded
    /\ (/\ pc = "done"
        /\ \/ exit.error \in
                 { "MissingCredential", "InvalidOption", "InputNotFound",
                   "ServiceError", "GenerationFailed", "NoMediaProduced" }
           \/ exit.how = "raise") => DiskUntouched

C18_Witness ==
    /\ pipeline = "image" /\ pc = "done"
    /\ exit = SysExit("NoMediaProduced")
    /\ args.output_path = << "renders", "new", "out.bin" >>
    /\ PartsOf(response[1]) = << TextPart("I cannot draw that") >>
    /\ dirs = InitialDirs /\ files = << >>

====
